---- MODULE Spec2Model ----
(***************************************************************************)
(* Model of SKGC.py: the two-role (agent / assistant) extraction and       *)
(* evaluation pipeline over a list of publications.                        *)
(*                                                                         *)
(* A text is a sequence of tokens.  A token is one character, except that  *)
(* a section marker ('Your result:', 'CSOC result:', 'Human expert         *)
(* result:') and a template placeholder ('XXXtitleXXX', ...) are one token *)
(* each, so that str.split and str.replace on them act on single tokens.   *)
(* Ratios are exact rationals [n, d] (Python computes them as floats).     *)
(***************************************************************************)
EXTENDS Integers, Sequences, FiniteSets, TLC

\* ----------------------------------------------------------------- bounds
MaxPubs == 2
MaxDeviations == 1
MaxListLen == 2
MaxEntries == 4

\* ------------------------------------------------------------------ texts
YourResult == "Your result:"
CsocResult == "CSOC result:"
HumanExpertResult == "Human expert result:"

RECURSIVE LStrip(_)
LStrip(s) ==
    IF s # <<>> /\ Head(s) = " " THEN LStrip(Tail(s)) ELSE s

RECURSIVE RStrip(_)
RStrip(s) ==
    IF s # <<>> /\ s[Len(s)] = " " THEN RStrip(SubSeq(s, 1, Len(s) - 1)) ELSE s

\* str.strip()
Strip(s) == RStrip(LStrip(s))

RECURSIVE SplitFrom(_, _, _)
\* the parts of s after a separator, cur being the part read so far
SplitFrom(s, sep, cur) ==
    IF s = <<>> THEN <<cur>>
    ELSE IF Head(s) = sep THEN <<cur>> \o SplitFrom(Tail(s), sep, <<>>)
    ELSE SplitFrom(Tail(s), sep, Append(cur, Head(s)))

\* mutant: the empty text splits into no part
SplitEmptyIntoNone(s, sep) == IF s = <<>> THEN <<>> ELSE SplitFrom(s, sep, <<>>)

\* str.split(sep): always at least one part ('' splits into [''])
Split(s, sep) == SplitFrom(s, sep, <<>>)

RECURSIVE Replace(_, _, _)
\* str.replace(old, new) for a one-token old
Replace(s, old, new) ==
    IF s = <<>> THEN <<>>
    ELSE (IF Head(s) = old THEN new ELSE <<Head(s)>>) \o Replace(Tail(s), old, new)

RECURSIVE list_to_comma_separated_string(_)
\* ', '.join(map(str, in_list))
list_to_comma_separated_string(in_list) ==
    IF in_list = <<>> THEN <<>>
    ELSE IF Len(in_list) = 1 THEN Head(in_list)
    ELSE Head(in_list) \o <<",", " ">> \o list_to_comma_separated_string(Tail(in_list))

\* [topic.strip() for topic in items]
StripAll(items) == [i \in 1..Len(items) |-> Strip(items[i])]

\* ------------------------------------------------------- integer literals
Digits == {"0", "1", "2", "3", "4", "5", "6", "7", "8", "9"}

DigitValue(c) ==
    CASE c = "0" -> 0 [] c = "1" -> 1 [] c = "2" -> 2 [] c = "3" -> 3
      [] c = "4" -> 4 [] c = "5" -> 5 [] c = "6" -> 6 [] c = "7" -> 7
      [] c = "8" -> 8 [] c = "9" -> 9

RECURSIVE DigitsValue(_, _)
DigitsValue(s, acc) ==
    IF s = <<>> THEN acc ELSE DigitsValue(Tail(s), 10 * acc + DigitValue(Head(s)))

AllDigits(s) == s # <<>> /\ \A i \in 1..Len(s) : s[i] \in Digits

\* int(response) succeeds: optional surrounding blanks, optional sign, digits
IsIntLiteral(s) ==
    LET t == Strip(s)
    IN  /\ t # <<>>
        /\ IF Head(t) \in {"-", "+"} THEN AllDigits(Tail(t)) ELSE AllDigits(t)

IntValue(s) ==
    LET t == Strip(s)
    IN  IF Head(t) = "-" THEN 0 - DigitsValue(Tail(t), 0)
        ELSE IF Head(t) = "+" THEN DigitsValue(Tail(t), 0)
        ELSE DigitsValue(t, 0)

\* mutant: a text that is no integer gives -1
response_to_integer_minus_one(response) ==
    IF IsIntLiteral(response) THEN IntValue(response) ELSE 0 - 1

\* int() raising ValueError gives 0
response_to_integer(response) ==
    IF IsIntLiteral(response) THEN IntValue(response) ELSE 0

\* --------------------------------------------------------------- rationals
Abs(x) == IF x < 0 THEN 0 - x ELSE x

RECURSIVE Gcd(_, _)
Gcd(a, b) == IF b = 0 THEN a ELSE Gcd(b, a % b)

\* the ratio n/d in lowest terms with a positive denominator (d # 0)
Rat(n, d) ==
    LET g == Gcd(Abs(n), Abs(d))
        s == IF d < 0 THEN 0 - 1 ELSE 1
    IN  [n |-> (s * n) \div g, d |-> (s * d) \div g]

Sentinel == Rat(0 - 1, 1)
Zero == Rat(0, 1)
One == Rat(1, 1)

RatAdd(x, y) == Rat(x.n * y.d + y.n * x.d, x.d * y.d)
RatLess(x, y) == x.n * y.d < y.n * x.d
RatLeq(x, y) == x.n * y.d <= y.n * x.d
RatInv(x) == Rat(x.d, x.n)

RECURSIVE SumInv(_)
SumInv(xs) == IF xs = <<>> THEN Zero ELSE RatAdd(RatInv(Head(xs)), SumInv(Tail(xs)))

\* float('nan'), written as the ratio 0/0
NaN == [n |-> 0, d |-> 0]

Returns(v) == [raise |-> FALSE, value |-> v]
Raises == [raise |-> TRUE, value |-> NaN]

\* scipy.stats.hmean of a non-empty list: the set of its outcomes.  For a
\* negative element the SciPy releases that reject it raise ValueError, the
\* releases that only warn return NaN.
hmean(xs) ==
    IF \E i \in 1..Len(xs) : xs[i] = NaN THEN {Returns(NaN)}
    ELSE IF \E i \in 1..Len(xs) : xs[i].n < 0 THEN {Raises, Returns(NaN)}
    ELSE IF \E i \in 1..Len(xs) : xs[i].n = 0 THEN {Returns(Zero)}
    ELSE LET s == SumInv(xs) IN {Returns(Rat(Len(xs) * s.d, s.n))}

\* ------------------------------------------------------------ environment
FileNames == {"prompts_gpt_agent.yaml", "prompts_gpt_assistant.yaml",
              "prompts_gpt_agent_eval.yaml", "prompts_gpt_assistant_eval.yaml"}

FileStates == {"ok", "missing", "malformed"}

\* what a template file may hold besides: nothing it can be parsed to (an
\* empty file, yaml.safe_load gives None), a list with an item that is no
\* text (a number), one plain text
TemplateFileKinds == FileStates \cup {"empty", "nontext", "text"}

\* the plain text of a template file of the kind "text"
ScalarText == <<"a", "b", "c">>

\* the templates of a well-formed template file, placeholders as in the code
FileContent(file_name) ==
    CASE file_name = "prompts_gpt_agent.yaml" ->
           << <<"E1", "XXXtitleXXX", "XXXkeywordsXXX", "XXXabstractXXX">>,
              <<"E2", "XXXresponse1XXX">>,
              <<"E3", "XXXresponse2XXX">> >>
      [] file_name = "prompts_gpt_assistant.yaml" ->
           << <<"V1", "XXXagent1XXX">>, <<"V2", "XXXagent2XXX">>,
              <<"V3", "XXXagent3XXX">> >>
      [] file_name = "prompts_gpt_agent_eval.yaml" ->
           << <<"E4", "XXXskgc_topicsXXX", "XXXgold_standardXXX">>,
              <<"E5", "XXXskgc_topics_orderedXXX", "XXXgold_standard_orderedXXX">>,
              <<"E6", "XXXcsoc_topicsXXX", "XXXgold_standardXXX">>,
              <<"E7", "XXXcsoc_topics_orderedXXX", "XXXgold_standard_orderedXXX">> >>
      [] file_name = "prompts_gpt_assistant_eval.yaml" ->
           << <<"V4", "XXXagent4XXX">>, <<"V5", "XXXagent5XXX">>,
              <<"V6", "XXXagent6XXX">>, <<"V7", "XXXagent7XXX">> >>

\* the publication read in as the i-th record
InputPublication(i) ==
    [title |-> <<"t", ToString(i)>>,
     keywords |-> << <<"k">> >>,
     abstract |-> <<"x">>,
     csoc_result |-> << <<"a">>, <<"c">> >>,
     gold_standard |-> << <<"a">>, <<"b">>, <<"c">> >>]

InputFields == {"title", "keywords", "abstract", "csoc_result", "gold_standard"}

\* ------------------------------------------------------- remote responses
\* The text a successful remote call of the agent returns (before .strip()).
AgentTexts(ph, st) == {<<" ", "r", "a", "w", " ">>}

\* The text a successful assistant call returns when it follows the format.
NominalAssistantText(ph, st) ==
    IF ph = "extract"
    THEN CASE st = 1 -> <<"a">>
           [] st = 2 -> <<"a", ",", "b">>
           [] st = 3 -> <<"a", ",", " ", "b", " ">>
    ELSE CASE st = 1 -> <<YourResult, " ", "a", ",", " ", "b", " ",
                          HumanExpertResult, " ", "a", ",", "b", ",", "c">>
           [] st = 2 -> <<"2">>
           [] st = 3 -> <<CsocResult, " ", "a", ",", "c", " ",
                          HumanExpertResult, " ", "a", ",", "c", ",", "b">>
           [] st = 4 -> <<"2">>

\* mutant: stage 3 splits at the marker of stage 1
CandidateMarkerSame(st) == YourResult

\* the first marker of an ordering response: 'Your result:' at stage 1,
\* 'CSOC result:' at stage 3
CandidateMarker(st) == IF st = 1 THEN YourResult ELSE CsocResult

\* Texts a successful assistant call may return that depart from the format
\* or from the expected content.
DeviantAssistantTexts(ph, st) ==
    IF ph = "extract"
    THEN IF st = 3 THEN {<<"a", ",", "a">>} ELSE {<<"z">>}
    ELSE IF st \in {1, 3}
         THEN {<<CandidateMarker(st), "a">>,
               <<HumanExpertResult, "a">>,
               <<YourResult, "a", HumanExpertResult, "a">>,
               <<CsocResult, "a", HumanExpertResult, "a">>,
               <<CandidateMarker(st), HumanExpertResult, "x">>,
               <<CandidateMarker(st), "a", HumanExpertResult>>,
               <<CandidateMarker(st), "a", ",", "b",
                 HumanExpertResult, "a", ",", "b">>}
              \ {NominalAssistantText(ph, st)}
         ELSE {<<"a", "b", "c">>, <<"5">>, <<"-", "1">>, <<"0">>, <<"1">>}

\* ------------------------------------------------------------------ state
VARIABLES
    env,                    \* os.getenv: which credentials are set
    files,                  \* state of each template file
    publications,           \* the list of publication records
    messages_history_all,   \* the ledgers of the extracted publications
    messages_history,       \* the ledger of the extraction under way
    phase,                  \* "input", "select", "extract", "eval", "done",
                            \* "written" or "stopped"
    count,                  \* 1-based index of the publication in work
    stage,                  \* stage of extract_topics_one / eval_one
    step,                   \* "begin", "agent", "assistant" or "finish"
    prompts_gpt_agent,      \* templates loaded by the pipeline in work
    prompts_gpt_assistant,
    response,               \* responseN: [text, src], src its last writer
    ordered,                \* the four ordered lists of eval_one, unstripped
    error,                  \* "none" or the uncaught exception
    events,                 \* delays, dispatches and failures so far
    last_messages,          \* the context of the last remote request
    failures,               \* remote calls that raised
    malformed,              \* successful responses off the expected format
    report,                 \* print_eval_details: its state and its results
    data,                   \* the JSON file last read or written
    selection               \* the answer given to select_publications

vars == <<env, files, publications, messages_history_all, messages_history,
          phase, count, stage, step, prompts_gpt_agent, prompts_gpt_assistant,
          response, ordered, error, events, last_messages, failures, malformed,
          report, data, selection>>

AgentSystemTurn ==
    [role |-> "system", content |-> <<"agent-system">>, src |-> "fixed"]

AssistantSystemTurn ==
    [role |-> "system", content |-> <<"assistant-system">>, src |-> "fixed"]

\* mutant: the prompt is appended as a system turn
UserTurnAsSystem(prompt) == [role |-> "system", content |-> prompt, src |-> "prompt"]

\* {"role": "user", "content": prompt}
UserTurn(prompt) == [role |-> "user", content |-> prompt, src |-> "prompt"]

\* {"role": "assistant", "content": responseN}; src is the call that last
\* assigned responseN
AssistantTurn(resp) == [role |-> "assistant", content |-> resp.text, src |-> resp.src]

NoOrdered ==
    [skgc_topics_ordered |-> <<>>, gold_standard_ordered1 |-> <<>>,
     csoc_topics_ordered |-> <<>>, gold_standard_ordered2 |-> <<>>]

\* print_eval_details has not run: sys.stdout is the console, no file was
\* opened, no corpus mean is bound
NoReport ==
    [done |-> FALSE, choice |-> "none", stdout |-> "console", opened |-> {},
     means |-> <<>>, verdict |-> "none"]

\* no JSON file has been read or written
NoFile == [kind |-> "absent", items |-> <<>>]

\* mutant: only a missing file gives the empty list
load_prompts_from_yaml_missing_only(file_name) ==
    IF files[file_name] = "missing" THEN <<>> ELSE FileContent(file_name)

\* prompts = list(), then the strip()-ed items of yaml.safe_load(file);
\* every exception on the way is caught and prompts returned as it is.  A
\* file that holds one plain text is iterated character by character.
load_prompts_from_yaml(file_name) ==
    CASE files[file_name] = "ok" -> FileContent(file_name)
      [] files[file_name] = "text" ->
           [i \in 1..Len(ScalarText) |-> Strip(<<ScalarText[i]>>)]
      [] OTHER -> <<>>

Init ==
    /\ env \in [agent : BOOLEAN, assistant : BOOLEAN, org : BOOLEAN]
    /\ files \in [FileNames -> FileStates]
    /\ \E n \in 1..MaxPubs : publications = [i \in 1..n |-> InputPublication(i)]
    /\ messages_history_all = <<>>
    /\ messages_history = <<>>
    /\ phase = "extract"
    /\ count = 1
    /\ stage = 1
    /\ step = "begin"
    /\ prompts_gpt_agent = <<>>
    /\ prompts_gpt_assistant = <<>>
    /\ response = [text |-> <<>>, src |-> "none"]
    /\ ordered = NoOrdered
    /\ error = "none"
    /\ events = <<>>
    /\ last_messages = <<>>
    /\ failures = 0
    /\ malformed = 0
    /\ report = NoReport
    /\ data = NoFile
    /\ selection = "none"

\* ---------------------------------------------------------------- helpers
Running == phase \in {"extract", "eval"} /\ error = "none"

\* the ledger the running pipeline works on: extract_topics_all hands the
\* fresh list to extract_topics_one, eval_all hands messages_history_all[count]
Ledger ==
    IF phase = "extract" THEN messages_history ELSE messages_history_all[count]

WithLedger(l) ==
    IF phase = "extract"
    THEN /\ messages_history' = l
         /\ UNCHANGED messages_history_all
    ELSE /\ messages_history_all' = [messages_history_all EXCEPT ![count] = l]
         /\ UNCHANGED messages_history

Event(ev, role) == [ev |-> ev, role |-> role, phase |-> phase, pub |-> count]

\* an uncaught exception ends the run where it is raised
Raise(exc) ==
    /\ error' = exc
    /\ phase' = phase

MayDeviate == failures + malformed < MaxDeviations

\* mutant: the placeholders of the template are not replaced
AgentPromptNoSubstitution(template) == template

\* the agent prompt of the stage in work, built from its template
AgentPrompt(template) ==
    LET pub == publications[count]
    IN  IF phase = "extract"
        THEN CASE stage = 1 ->
                    Replace(Replace(Replace(template,
                        "XXXtitleXXX", pub["title"]),
                        "XXXkeywordsXXX", list_to_comma_separated_string(pub["keywords"])),
                        "XXXabstractXXX", pub["abstract"])
               [] stage = 2 -> Replace(template, "XXXresponse1XXX", response.text)
               [] stage = 3 -> Replace(template, "XXXresponse2XXX", response.text)
        ELSE CASE stage = 1 ->
                    Replace(Replace(template,
                        "XXXskgc_topicsXXX", list_to_comma_separated_string(pub["skgc_topics"])),
                        "XXXgold_standardXXX", list_to_comma_separated_string(pub["gold_standard"]))
               [] stage = 2 ->
                    Replace(Replace(template,
                        "XXXskgc_topics_orderedXXX",
                            list_to_comma_separated_string(ordered.skgc_topics_ordered)),
                        "XXXgold_standard_orderedXXX",
                            list_to_comma_separated_string(ordered.gold_standard_ordered1))
               [] stage = 3 ->
                    Replace(Replace(template,
                        "XXXcsoc_topicsXXX", list_to_comma_separated_string(pub["csoc_result"])),
                        "XXXgold_standardXXX", list_to_comma_separated_string(pub["gold_standard"]))
               [] stage = 4 ->
                    Replace(Replace(template,
                        "XXXcsoc_topics_orderedXXX",
                            list_to_comma_separated_string(ordered.csoc_topics_ordered)),
                        "XXXgold_standard_orderedXXX",
                            list_to_comma_separated_string(ordered.gold_standard_ordered2))

AssistantPlaceholder ==
    IF phase = "extract"
    THEN CASE stage = 1 -> "XXXagent1XXX" [] stage = 2 -> "XXXagent2XXX"
           [] stage = 3 -> "XXXagent3XXX"
    ELSE CASE stage = 1 -> "XXXagent4XXX" [] stage = 2 -> "XXXagent5XXX"
           [] stage = 3 -> "XXXagent6XXX" [] stage = 4 -> "XXXagent7XXX"

AssistantPrompt(template) == Replace(template, AssistantPlaceholder, response.text)

\* mutant: the organization is not checked
AgentConfigErrorKeyOnly(e) == ~e.agent

\* query_gpt_agent raises the configuration error
AgentConfigError(e) == ~e.agent \/ ~e.org


\* mutant: the assistant key is not checked
AssistantConfigErrorOrgOnly(e) == ~e.org

\* query_gpt_assistant raises the configuration error
AssistantConfigError(e) == ~e.assistant \/ ~e.org

\* mutant: the context holds the prompt alone
AgentMessagesPromptOnly(history, prompt) == <<UserTurn(prompt)>>

\* the context query_gpt_agent sends: the ledger with the prompt appended
AgentMessages(history, prompt) == Append(history, UserTurn(prompt))


\* mutant: the system turn is left out of the context
AssistantMessagesNoSystem(prompt) == <<UserTurn(prompt)>>

\* the context query_gpt_assistant builds for one call
AssistantMessages(prompt) == <<AssistantSystemTurn, UserTurn(prompt)>>


\* mutant: the verified text does not replace the agent's text
AssistantResultKeepsAgent(agentResponse, text) == agentResponse

\* responseN = query_gpt_assistant(promptNa): the verified text overwrites
\* the agent's text in responseN
AssistantResult(agentResponse, text) == [text |-> text, src |-> "assistant"]


\* mutant: the verified text is not appended
AppendNothing(history, resp) == history

\* mutant: the verified text takes the place of the last turn
AppendVerifiedOverLast(history, resp) ==
    Append(SubSeq(history, 1, Len(history) - 1), AssistantTurn(resp))

\* messages_history.append({"role": "assistant", "content": responseN})
AppendVerified(history, resp) == Append(history, AssistantTurn(resp))

\* mutant: the call does not wait
SleptNot(evts, role) == evts

\* time.sleep(10) at the head of query_gpt_agent and query_gpt_assistant
Slept(evts, role) == Append(evts, Event("delay", role))

\* mutant: the except branch returns the text of the exception
FailedResponseErrorText == <<"E", "r", "r", "o", "r">>

\* the except branch of both calls: return ""
FailedResponse == <<>>

\* mutant: the ledger of the previous publication is used again
NewLedgerReused(previous) == previous

\* extract_topics_all: messages_history = list()
NewLedger(previous) == <<>>

\* mutant: a stage whose verified text is empty is entered again
StageAfterRetry(st, resp) == IF resp.text = <<>> THEN st ELSE st + 1

\* the stage that follows stage st of extract_topics_one, whatever the
\* verified response
StageAfter(st, resp) == st + 1

\* ----------------------------------------------------------------- actions
\* extract_topics_all: a fresh ledger for the next publication;
\* extract_topics_one: load the templates, append the system turn
ExtractBegin ==
    /\ Running /\ phase = "extract" /\ step = "begin"
    /\ prompts_gpt_agent' = load_prompts_from_yaml("prompts_gpt_agent.yaml")
    /\ prompts_gpt_assistant' = load_prompts_from_yaml("prompts_gpt_assistant.yaml")
    /\ messages_history' = Append(NewLedger(messages_history), AgentSystemTurn)
    /\ stage' = 1
    /\ step' = "agent"
    /\ UNCHANGED <<data, selection, report, env, files, publications, messages_history_all, phase, count,
                   response, ordered, error, events, last_messages, failures,
                   malformed>>

\* eval_all: the ledger of publication count; eval_one: load the templates
EvalBegin ==
    /\ Running /\ phase = "eval" /\ step = "begin"
    /\ prompts_gpt_agent' = load_prompts_from_yaml("prompts_gpt_agent_eval.yaml")
    /\ prompts_gpt_assistant' = load_prompts_from_yaml("prompts_gpt_assistant_eval.yaml")
    /\ IF count > Len(messages_history_all)
       THEN /\ Raise("IndexError")
            /\ UNCHANGED <<stage, step>>
       ELSE /\ stage' = 1
            /\ step' = "agent"
            /\ UNCHANGED <<error, phase>>
    /\ ordered' = NoOrdered
    /\ UNCHANGED <<data, selection, report, env, files, publications, messages_history_all,
                   messages_history, count, response, events, last_messages,
                   failures, malformed>>

\* build the agent prompt of the stage, then query_gpt_agent(prompt, ledger)
AgentCall ==
    /\ Running /\ step = "agent"
    /\ IF Len(prompts_gpt_agent) < stage
       THEN \* prompts_gpt_agent[stage - 1] on a list that is too short
            /\ Raise("IndexError")
            /\ UNCHANGED <<messages_history_all, messages_history, step, response,
                           events, last_messages, failures, malformed>>
       ELSE LET prompt == AgentPrompt(prompts_gpt_agent[stage])
                slept == Slept(events, "agent")
            IN  IF AgentConfigError(env)
                THEN /\ Raise("ValueError")
                     /\ events' = slept
                     /\ UNCHANGED <<messages_history_all, messages_history, step,
                                    response, last_messages, failures, malformed>>
                ELSE /\ WithLedger(AgentMessages(Ledger, prompt))
                     /\ last_messages' = AgentMessages(Ledger, prompt)
                     /\ step' = "assistant"
                     /\ UNCHANGED <<error, phase>>
                     /\ \/ \E raw \in AgentTexts(phase, stage) :
                             /\ response' = [text |-> Strip(raw), src |-> "agent"]
                             /\ events' = Append(slept, Event("dispatch", "agent"))
                             /\ UNCHANGED <<failures, malformed>>
                        \/ /\ MayDeviate
                           /\ response' = [text |-> FailedResponse, src |-> "agent"]
                           /\ events' = Append(Append(slept, Event("dispatch", "agent")),
                                               Event("fail", "agent"))
                           /\ failures' = failures + 1
                           /\ UNCHANGED malformed
    /\ UNCHANGED <<data, selection, report, env, files, publications, count, stage, prompts_gpt_agent,
                   prompts_gpt_assistant, ordered>>

\* build the assistant prompt from the agent's text, then
\* query_gpt_assistant(prompt)
AssistantCall ==
    /\ Running /\ step = "assistant"
    /\ IF Len(prompts_gpt_assistant) < stage
       THEN /\ Raise("IndexError")
            /\ UNCHANGED <<step, response, events, last_messages, failures, malformed>>
       ELSE LET prompt == AssistantPrompt(prompts_gpt_assistant[stage])
                slept == Slept(events, "assistant")
            IN  IF AssistantConfigError(env)
                THEN /\ Raise("ValueError")
                     /\ events' = slept
                     /\ UNCHANGED <<step, response, last_messages, failures, malformed>>
                ELSE /\ last_messages' = AssistantMessages(prompt)
                     /\ step' = "finish"
                     /\ UNCHANGED <<error, phase>>
                     /\ \/ /\ response' = AssistantResult(response,
                                              Strip(NominalAssistantText(phase, stage)))
                           /\ events' = Append(slept, Event("dispatch", "assistant"))
                           /\ UNCHANGED <<failures, malformed>>
                        \/ /\ MayDeviate
                           /\ \E raw \in DeviantAssistantTexts(phase, stage) :
                                 response' = AssistantResult(response, Strip(raw))
                           /\ events' = Append(slept, Event("dispatch", "assistant"))
                           /\ malformed' = malformed + 1
                           /\ UNCHANGED failures
                        \/ /\ MayDeviate
                           /\ response' = AssistantResult(response, FailedResponse)
                           /\ events' = Append(Append(slept, Event("dispatch", "assistant")),
                                               Event("fail", "assistant"))
                           /\ failures' = failures + 1
                           /\ UNCHANGED malformed
    /\ UNCHANGED <<data, selection, report, env, files, publications, messages_history_all, messages_history,
                   count, stage, prompts_gpt_agent, prompts_gpt_assistant, ordered>>

\* ------------------------------------------------------------ stage ends
\* mutant: each publication is evaluated right after its extraction
AfterExtractionInterleaved(c, n) == [phase |-> "eval", count |-> c]

\* extract_topics_all: the next publication, or on to eval_all (main)
AfterExtraction(c, n) ==
    IF c < n THEN [phase |-> "extract", count |-> c + 1]
    ELSE [phase |-> "eval", count |-> 1]

\* eval_all: the next publication, or the end of the evaluation
AfterEvaluation(c, n) ==
    IF c < n THEN [phase |-> "eval", count |-> c + 1]
    ELSE [phase |-> "done", count |-> c]

\* mutant: the items are not stripped
TopicListNoStrip(text) == Split(text, ",")

\* response3.split(','), each item stripped
TopicList(text) == StripAll(Split(text, ","))

\* the two lists of an ordering response: text.split(marker)[1]
\* .split('Human expert result:')[0].strip().split(',') and
\* text.split('Human expert result:')[1].strip().split(','); ok is FALSE
\* where an index [1] is out of range
ParseOrdered(text, marker) ==
    LET parts == Split(text, marker)
        he == Split(text, HumanExpertResult)
    IN  IF Len(parts) < 2 \/ Len(he) < 2
        THEN [ok |-> FALSE, cand |-> <<>>, gold |-> <<>>]
        ELSE [ok |-> TRUE,
              cand |-> Split(Strip(Split(parts[2], HumanExpertResult)[1]), ","),
              gold |-> Split(Strip(he[2]), ",")]

\* mutant: the record is replaced by the new fields
AttachOnly(publication, fields) == fields

\* publication[key] = value for each of the fields: the other keys of the
\* record stay as they are
Attach(publication, fields) == fields @@ publication

\* mutant: stage 3 stores its gold list under the key of stage 1
OrderedKeysSharedGold(st) ==
    IF st = 1
    THEN [cand |-> "skgc_topics_ordered", gold |-> "gold_standard_ordered1"]
    ELSE [cand |-> "csoc_topics_ordered", gold |-> "gold_standard_ordered1"]

\* the two names an ordering stage binds and the keys it stores them under
OrderedKeys(st) ==
    IF st = 1
    THEN [cand |-> "skgc_topics_ordered", gold |-> "gold_standard_ordered1"]
    ELSE [cand |-> "csoc_topics_ordered", gold |-> "gold_standard_ordered2"]

\* precision and recall share this form: -1 for an empty list
Ratio(matching_topics, list) ==
    IF Len(list) = 0 THEN Sentinel ELSE Rat(matching_topics, Len(list))

\* the outcomes of the f1 computation: -1 where precision + recall == 0
F1Outcomes(precision, recall) ==
    IF RatAdd(precision, recall).n = 0 THEN {Returns(Sentinel)}
    ELSE hmean(<<precision, recall>>)

\* append the verified text; after stage 3 return the topic list
ExtractStageEnd ==
    /\ Running /\ phase = "extract" /\ step = "finish"
    /\ LET l == AppendVerified(messages_history, response)
       IN  /\ messages_history' = l
           /\ IF StageAfter(stage, response) <= 3
              THEN /\ stage' = StageAfter(stage, response)
                   /\ step' = "agent"
                   /\ UNCHANGED <<publications, messages_history_all, phase, count>>
              ELSE LET next == AfterExtraction(count, Len(publications))
                   IN  /\ publications' = [publications EXCEPT ![count] =
                              Attach(@, "skgc_topics" :> TopicList(response.text))]
                       /\ messages_history_all' = Append(messages_history_all, l)
                       /\ phase' = next.phase
                       /\ count' = next.count
                       /\ stage' = 1
                       /\ step' = "begin"
    /\ UNCHANGED <<data, selection, report, env, files, prompts_gpt_agent, prompts_gpt_assistant, response,
                   ordered, error, events, last_messages, failures, malformed>>

\* stages 1 and 3 of eval_one: parse the two ordered lists, store them
EvalOrderEnd ==
    /\ Running /\ phase = "eval" /\ step = "finish" /\ stage \in {1, 3}
    /\ LET parsed == ParseOrdered(response.text, CandidateMarker(stage))
       IN  IF ~parsed.ok
           THEN /\ Raise("IndexError")
                /\ UNCHANGED <<publications, messages_history_all, stage, step, ordered>>
           ELSE /\ ordered' = [ordered EXCEPT ![OrderedKeys(stage).cand] = parsed.cand,
                                               ![OrderedKeys(stage).gold] = parsed.gold]
                /\ publications' = [publications EXCEPT ![count] =
                     Attach(@, (OrderedKeys(stage).cand :> StripAll(parsed.cand)) @@
                               (OrderedKeys(stage).gold :> StripAll(parsed.gold)))]
                /\ messages_history_all' = [messages_history_all EXCEPT ![count] =
                                                AppendVerified(@, response)]
                /\ stage' = stage + 1
                /\ step' = "agent"
                /\ UNCHANGED <<error, phase>>
    /\ UNCHANGED <<data, selection, report, env, files, messages_history, count, prompts_gpt_agent,
                   prompts_gpt_assistant, response, events, last_messages,
                   failures, malformed>>

\* stages 2 and 4 of eval_one: parse the count, compute and store the metrics
EvalCountEnd ==
    /\ Running /\ phase = "eval" /\ step = "finish" /\ stage \in {2, 4}
    /\ LET matching_topics == response_to_integer(response.text)
           cand == IF stage = 2 THEN ordered.skgc_topics_ordered
                   ELSE ordered.csoc_topics_ordered
           gold == IF stage = 2 THEN ordered.gold_standard_ordered1
                   ELSE ordered.gold_standard_ordered2
           precision == Ratio(matching_topics, cand)
           recall == Ratio(matching_topics, gold)
           next == AfterEvaluation(count, Len(publications))
       IN  \E f1 \in F1Outcomes(precision, recall) :
             IF f1.raise
             THEN /\ Raise("ValueError")
                  /\ UNCHANGED <<publications, messages_history_all, count, stage, step>>
             ELSE /\ publications' = [publications EXCEPT ![count] =
                       IF stage = 2
                       THEN Attach(@, ("skgc_precision" :> precision) @@
                                      ("skgc_recall" :> recall) @@ ("skgc_f1" :> f1.value))
                       ELSE Attach(@, ("csoc_precision" :> precision) @@
                                      ("csoc_recall" :> recall) @@ ("csoc_f1" :> f1.value))]
                  /\ messages_history_all' = [messages_history_all EXCEPT ![count] =
                                                  AppendVerified(@, response)]
                  /\ IF stage = 2
                     THEN /\ stage' = 3
                          /\ step' = "agent"
                          /\ UNCHANGED <<phase, count>>
                     ELSE /\ phase' = next.phase
                          /\ count' = next.count
                          /\ stage' = 1
                          /\ step' = "begin"
                  /\ UNCHANGED error
    /\ UNCHANGED <<data, selection, report, env, files, messages_history, prompts_gpt_agent,
                   prompts_gpt_assistant, response, ordered, events, last_messages,
                   failures, malformed>>

\* ----------------------------------------------------------------- report
\* the values of one metric over the evaluated records, in record order
MetricList(field) == [i \in 1..Len(publications) |-> publications[i][field]]

\* x >= 0 on a float: false for a negative value and for nan
NonNegative(x) == x.d > 0 /\ x.n >= 0

\* mutant: the mean is computed from the values whatever their sign
GuardedMeanNoGuard(xs) == hmean(xs)

\* the F1 corpus mean: hmean if all(x >= 0 for x in f1_list), else -1
GuardedMean(xs) ==
    IF \A i \in 1..Len(xs) : NonNegative(xs[i]) THEN hmean(xs)
    ELSE {Returns(Sentinel)}

\* the corpus means in the order print_eval_details computes them
MeanNames ==
    <<"precision_mean_skgc", "precision_mean_csoc", "recall_mean_skgc",
      "recall_mean_csoc", "f1_mean_skgc", "f1_mean_csoc">>

\* the outcomes of the computation of one corpus mean: precision and recall
\* means are hmean of the list as it is, the F1 means are guarded
MeanOutcomes(name) ==
    CASE name = "precision_mean_skgc" -> hmean(MetricList("skgc_precision"))
      [] name = "precision_mean_csoc" -> hmean(MetricList("csoc_precision"))
      [] name = "recall_mean_skgc" -> hmean(MetricList("skgc_recall"))
      [] name = "recall_mean_csoc" -> hmean(MetricList("csoc_recall"))
      [] name = "f1_mean_skgc" -> GuardedMean(MetricList("skgc_f1"))
      [] name = "f1_mean_csoc" -> GuardedMean(MetricList("csoc_f1"))

RECURSIVE ComputeMeans(_, _)
\* the means from the k-th on, bound holding the means computed before; a
\* raise ends the computation with the means bound so far
ComputeMeans(k, bound) ==
    IF k > Len(MeanNames) THEN {[raise |-> FALSE, means |-> bound]}
    ELSE UNION {IF o.raise THEN {[raise |-> TRUE, means |-> bound]}
                ELSE ComputeMeans(k + 1, (MeanNames[k] :> o.value) @@ bound) :
                o \in MeanOutcomes(MeanNames[k])}

\* mutant: the conclusion is drawn from the precision means
VerdictByPrecision(means) ==
    IF RatLess(means["precision_mean_csoc"], means["precision_mean_skgc"]) THEN "SKGC better"
    ELSE IF RatLess(means["precision_mean_skgc"], means["precision_mean_csoc"]) THEN "CSOC better"
    ELSE "identical"

\* the three-way conclusion printed from the two F1 corpus means
Verdict(means) ==
    IF RatLess(means["f1_mean_csoc"], means["f1_mean_skgc"]) THEN "SKGC better"
    ELSE IF RatLess(means["f1_mean_skgc"], means["f1_mean_csoc"]) THEN "CSOC better"
    ELSE "identical"

\* print_eval_details: the user's answer, the file opened for writing, the
\* redirection of sys.stdout, the corpus means and the verdict
\* The ways the body of the with-block ends: the means computed, a
\* ValueError of hmean, or, when print writes through DualOutput, an OSError
\* of the write to the file.
ReportOutcomes(file_bool) ==
    {[error |-> IF o.raise THEN "ValueError" ELSE "none", means |-> o.means] :
        o \in ComputeMeans(1, <<>>)}
    \cup (IF file_bool THEN {[error |-> "OSError", means |-> <<>>]} ELSE {})

PrintEvalDetails ==
    /\ phase = "done" /\ error = "none" /\ ~report.done
    /\ \E choice \in {"A", "B"} :
          LET file_bool == choice = "A"
              file_name == IF file_bool THEN "eval.txt" ELSE "file_name.txt"
          IN  \E out \in ReportOutcomes(file_bool) :
              /\ report' = [done |-> TRUE,
                            choice |-> choice,
                            stdout |-> IF file_bool /\ out.error # "none"
                                       THEN "dual" ELSE "console",
                            opened |-> {file_name},
                            means |-> out.means,
                            verdict |-> IF out.error # "none" THEN "none"
                                        ELSE Verdict(out.means)]
              /\ error' = out.error
    /\ UNCHANGED <<data, selection, env, files, publications, messages_history_all,
                   messages_history, phase, count, stage, step, prompts_gpt_agent,
                   prompts_gpt_assistant, response, ordered, events, last_messages,
                   failures, malformed>>

\* ------------------------------------------------------- the JSON files
\* the i-th entry of an input file with all its keys; title and abstract
\* carry whitespace at their ends
FullEntry(i) ==
    [title |-> <<" ", "t", ToString(i)>>,
     keywords |-> << <<"k">> >>,
     abstract |-> <<"x", " ">>,
     cso_output |-> [final |-> << <<"a">>, <<"c">> >>],
     gold_standard |-> [majority_vote |-> << <<"a">>, <<"b">>, <<"c">> >>]]

\* the keys an entry of an input file may lack
EntryShapes == {{}, {"title"}, {"keywords"}, {"cso_output"}}

\* the i-th entry without the keys of lacking
Entry(i, lacking) ==
    [k \in (DOMAIN FullEntry(i)) \ lacking |-> FullEntry(i)[k]]

\* the files the user may name: none of that name, one that is no JSON, a
\* JSON array, a JSON object of up to MaxEntries entries
InputFiles ==
    {[kind |-> k, items |-> <<>>] : k \in {"absent", "invalid", "array"}}
    \cup UNION {{[kind |-> "object", items |-> [i \in 1..n |-> Entry(i, shape[i])]] :
                     shape \in [1..n -> EntryShapes]} : n \in 0..MaxEntries}

\* the local names of read_publication_from_file after the five if
\* statements on one entry: a name is rebound where the entry has its key
\* and stays as it is where it has not
BindLocals(locals, value) ==
    (IF "title" \in DOMAIN value THEN "title" :> value["title"] ELSE <<>>) @@
    (IF "keywords" \in DOMAIN value THEN "keywords" :> value["keywords"] ELSE <<>>) @@
    (IF "abstract" \in DOMAIN value THEN "abstract" :> value["abstract"] ELSE <<>>) @@
    (IF "cso_output" \in DOMAIN value /\ "final" \in DOMAIN value["cso_output"]
     THEN "csoc_result" :> value["cso_output"]["final"] ELSE <<>>) @@
    (IF "gold_standard" \in DOMAIN value
        /\ "majority_vote" \in DOMAIN value["gold_standard"]
     THEN "gold_standard" :> value["gold_standard"]["majority_vote"] ELSE <<>>) @@
    locals

RECURSIVE ReadEntries(_, _, _)
\* the loop over data.items(): the records appended so far and the local
\* names as the entries before left them; reading a name that no entry has
\* bound yet raises UnboundLocalError
ReadEntries(entries, locals, acc) ==
    IF entries = <<>> THEN [raise |-> "none", publications |-> acc]
    ELSE LET bound == BindLocals(locals, Head(entries))
         IN  IF InputFields \subseteq DOMAIN bound
             THEN ReadEntries(Tail(entries), bound,
                      Append(acc, [title |-> Strip(bound["title"]),
                                   keywords |-> bound["keywords"],
                                   abstract |-> Strip(bound["abstract"]),
                                   csoc_result |-> bound["csoc_result"],
                                   gold_standard |-> bound["gold_standard"]]))
             ELSE [raise |-> "UnboundLocalError", publications |-> <<>>]

\* read_publication_from_file on a file that json.load accepts: a JSON
\* array has no items()
read_publication_from_file(file) ==
    IF file.kind = "array" THEN [raise |-> "AttributeError", publications |-> <<>>]
    ELSE ReadEntries(file.items, <<>>, <<>>)

\* publications[lo:hi]
Slice(list, lo, hi) ==
    LET last == IF hi < Len(list) THEN hi ELSE Len(list)
    IN  IF lo + 1 > last THEN <<>> ELSE SubSeq(list, lo + 1, last)

\* what select_publications returns for the answers A, B and C
select_publications(list, answer) ==
    CASE answer = "A" -> list
      [] answer = "B" -> Slice(list, 2, 36)
      [] answer = "C" -> Slice(list, 36, 70)

\* json.dump(publications_and_topics, file): the file holds a JSON array of
\* the records
json_dump(list) == [kind |-> "array", items |-> list]

\* get_publications_data for the answer f, and what main does with the
\* list: the file the user names is read; for a name that is no file or no
\* JSON the user is asked again
ReadPublications ==
    /\ phase \in {"input", "written"} /\ error = "none"
    /\ \E file \in (IF phase = "written" THEN {data} ELSE InputFiles) :
          IF file.kind \in {"absent", "invalid"}
          THEN UNCHANGED <<data, publications, phase, error>>
          ELSE LET read == read_publication_from_file(file)
               IN  /\ data' = file
                   /\ IF read.raise # "none"
                      THEN /\ error' = read.raise
                           /\ publications' = <<>>
                           /\ phase' = "input"
                      ELSE /\ publications' = read.publications
                           /\ phase' = (IF Len(read.publications) = 0 THEN "stopped"
                                        ELSE IF Len(read.publications) = 1 THEN "extract"
                                        ELSE "select")
                           /\ UNCHANGED error
    /\ UNCHANGED <<selection, report, env, files, messages_history_all, messages_history,
                   count, stage, step, prompts_gpt_agent, prompts_gpt_assistant,
                   response, ordered, events, last_messages, failures, malformed>>

\* select_publications: the answer A, B, C, or D and a number
SelectPublications ==
    /\ phase = "select" /\ error = "none"
    /\ \E answer \in {"A", "B", "C", "D"} :
          /\ selection' = answer
          /\ IF answer = "D"
             THEN \E one_publication_number \in 1..Len(publications) :
                     publications' = <<publications[one_publication_number]>>
             ELSE publications' = select_publications(publications, answer)
    /\ phase' = "extract"
    /\ UNCHANGED <<data, report, env, files, messages_history_all, messages_history,
                   count, stage, step, prompts_gpt_agent, prompts_gpt_assistant,
                   response, ordered, error, events, last_messages, failures,
                   malformed>>

\* skgc_topics_and_eval_to_json, called by main when print_eval_details
\* has returned
WriteJson ==
    /\ phase = "done" /\ error = "none" /\ report.done
    /\ data' = json_dump(publications)
    /\ phase' = "written"
    /\ UNCHANGED <<selection, report, env, files, publications, messages_history_all,
                   messages_history, count, stage, step, prompts_gpt_agent,
                   prompts_gpt_assistant, response, ordered, error, events,
                   last_messages, failures, malformed>>

Next ==
    \/ ExtractBegin
    \/ AgentCall
    \/ AssistantCall
    \/ ExtractStageEnd
    \/ EvalBegin
    \/ EvalOrderEnd
    \/ EvalCountEnd
    \/ PrintEvalDetails
    \/ WriteJson

Spec == Init /\ [][Next]_vars

\* ------------------------------------------ the metric computation alone
\* verified count texts the metric computation is applied to
CountTexts ==
    {<<"0">>, <<"1">>, <<"2">>, <<"5">>, <<"-", "1">>, <<"a", "b", "c">>, <<>>}

\* a list of n items
ItemList(n) == [i \in 1..n |-> <<"x">>]

\* eval_one at the end of a count stage (lines 523 and 580), its inputs -
\* the verified count text and the two ordered lists, empty lists included -
\* drawn from bounded sets
InitMetrics ==
    /\ env = [agent |-> TRUE, assistant |-> TRUE, org |-> TRUE]
    /\ files = [f \in FileNames |-> "ok"]
    /\ publications = <<InputPublication(1)>>
    /\ messages_history_all = << <<AgentSystemTurn>> >>
    /\ messages_history = <<AgentSystemTurn>>
    /\ phase = "eval"
    /\ count = 1
    /\ stage \in {2, 4}
    /\ step = "finish"
    /\ prompts_gpt_agent = FileContent("prompts_gpt_agent_eval.yaml")
    /\ prompts_gpt_assistant = FileContent("prompts_gpt_assistant_eval.yaml")
    /\ response \in {[text |-> t, src |-> "assistant"] : t \in CountTexts}
    /\ \E nc \in 0..MaxListLen : \E ng \in 0..MaxListLen :
          ordered = IF stage = 2
                    THEN [NoOrdered EXCEPT !.skgc_topics_ordered = ItemList(nc),
                                           !.gold_standard_ordered1 = ItemList(ng)]
                    ELSE [NoOrdered EXCEPT !.csoc_topics_ordered = ItemList(nc),
                                           !.gold_standard_ordered2 = ItemList(ng)]
    /\ error = "none"
    /\ events = <<>>
    /\ last_messages = <<>>
    /\ failures = 0
    /\ malformed = 0
    /\ report = NoReport
    /\ data = NoFile
    /\ selection = "none"

NextMetrics == EvalCountEnd

SpecMetrics == InitMetrics /\ [][NextMetrics]_vars

\* -------------------------------------------- the loading of the templates
\* extract_topics_one and eval_one at their first statements (lines 365 and
\* 480), with template files of every kind
InitTemplates ==
    /\ env = [agent |-> TRUE, assistant |-> TRUE, org |-> TRUE]
    /\ files \in [FileNames -> TemplateFileKinds]
    /\ publications = <<InputPublication(1)>>
    /\ phase \in {"extract", "eval"}
    /\ messages_history_all = IF phase = "eval" THEN << <<AgentSystemTurn>> >> ELSE <<>>
    /\ messages_history = <<>>
    /\ count = 1
    /\ stage = 1
    /\ step = "begin"
    /\ prompts_gpt_agent = <<>>
    /\ prompts_gpt_assistant = <<>>
    /\ response = [text |-> <<>>, src |-> "none"]
    /\ ordered = NoOrdered
    /\ error = "none"
    /\ events = <<>>
    /\ last_messages = <<>>
    /\ failures = 0
    /\ malformed = 0
    /\ report = NoReport
    /\ data = NoFile
    /\ selection = "none"

NextTemplates ==
    \/ ExtractBegin
    \/ EvalBegin

SpecTemplates == InitTemplates /\ [][NextTemplates]_vars

\* ------------------------------------- reading, selecting, writing alone
\* values a stored metric may have
MetricSamples == {Sentinel, Zero, Rat(4, 5), NaN}

\* the i-th record as eval_one leaves it, f1 and precision of SKGC given
EvaluatedRecord(i, f1, precision) ==
    Attach(InputPublication(i),
           [skgc_topics |-> << <<"a">>, <<"b">> >>,
            skgc_topics_ordered |-> << <<"a">>, <<"b">> >>,
            gold_standard_ordered1 |-> << <<"a">>, <<"b">>, <<"c">> >>,
            csoc_topics_ordered |-> << <<"a">>, <<"c">> >>,
            gold_standard_ordered2 |-> << <<"a">>, <<"c">>, <<"b">> >>,
            skgc_precision |-> precision, skgc_recall |-> Rat(2, 3), skgc_f1 |-> f1,
            csoc_precision |-> One, csoc_recall |-> Rat(2, 3), csoc_f1 |-> Rat(4, 5)])

\* main before get_publications_data, or main when print_eval_details has
\* returned for a list of evaluated records
InitFiles ==
    /\ env = [agent |-> TRUE, assistant |-> TRUE, org |-> TRUE]
    /\ files = [f \in FileNames |-> "ok"]
    /\ \/ /\ phase = "input"
          /\ publications = <<>>
          /\ report = NoReport
       \/ /\ phase = "done"
          /\ \E n \in 1..MaxPubs :
                publications \in [1..n -> {EvaluatedRecord(1, f1, precision) :
                                              f1 \in MetricSamples,
                                              precision \in {Zero, One}}]
          /\ report = [NoReport EXCEPT !.done = TRUE, !.choice = "B",
                                       !.opened = {"file_name.txt"}]
    /\ messages_history_all = <<>>
    /\ messages_history = <<>>
    /\ count = 1
    /\ stage = 1
    /\ step = "begin"
    /\ prompts_gpt_agent = <<>>
    /\ prompts_gpt_assistant = <<>>
    /\ response = [text |-> <<>>, src |-> "none"]
    /\ ordered = NoOrdered
    /\ error = "none"
    /\ events = <<>>
    /\ last_messages = <<>>
    /\ failures = 0
    /\ malformed = 0
    /\ data = NoFile
    /\ selection = "none"

NextFiles ==
    \/ ReadPublications
    \/ SelectPublications
    \/ WriteJson

SpecFiles == InitFiles /\ [][NextFiles]_vars

\* ------------------------------------------------------------ properties
\* every ledger of the run: the one under extraction and the stored ones
AllLedgers ==
    {messages_history} \cup {messages_history_all[i] : i \in 1..Len(messages_history_all)}

RECURSIVE CountRole(_, _)
CountRole(l, role) ==
    IF l = <<>> THEN 0
    ELSE (IF Head(l).role = role THEN 1 ELSE 0) + CountRole(Tail(l), role)

Dispatches(role) ==
    {k \in 1..Len(events) : events[k].ev = "dispatch" /\ events[k].role = role}

AllDispatches == Dispatches("agent") \cup Dispatches("assistant")

AllCredentials == env.agent /\ env.assistant /\ env.org

AllTemplates == \A f \in FileNames : files[f] = "ok"

\* C1: every assistant turn of every ledger holds a text that
\* query_gpt_assistant returned; no ledger holds a text that query_gpt_agent
\* returned.
C1_LedgerHoldsVerifiedOnly ==
    \A l \in AllLedgers : \A i \in 1..Len(l) :
        /\ l[i].role = "assistant" => l[i].src = "assistant"
        /\ l[i].src # "agent"

\* C1 witness: an evaluated publication, its ledger holding the seven
\* verified turns, each next to an agent text that was not stored.
C1_Witness ==
    /\ phase = "done"
    /\ error = "none"
    /\ CountRole(messages_history_all[1], "assistant") = 7
    /\ \A i \in 1..Len(messages_history_all[1]) :
          messages_history_all[1][i].content # <<"r", "a", "w">>

\* C2: during the extraction of a publication, after N completed stages
\* (N in 0..3) its ledger holds exactly N assistant turns and the one system
\* turn at its head, none of them a raw agent text; a ledger stored by
\* extract_topics_all holds three until its evaluation begins.
C2_ExtractionLedgerCount ==
    /\ (phase = "extract" /\ step # "begin") =>
          /\ CountRole(messages_history, "assistant") = stage - 1
          /\ CountRole(messages_history, "system") = 1
          /\ messages_history[1] = AgentSystemTurn
          /\ \A i \in 1..Len(messages_history) : messages_history[i].src # "agent"
    /\ phase = "extract" =>
          \A p \in 1..Len(messages_history_all) :
              /\ CountRole(messages_history_all[p], "assistant") = 3
              /\ CountRole(messages_history_all[p], "system") = 1
              /\ messages_history_all[p][1] = AgentSystemTurn

\* C2 witness: the three stages of the first publication are complete and
\* the second publication is in its third stage.
C2_Witness ==
    /\ phase = "extract"
    /\ count = 2
    /\ stage = 3
    /\ step = "finish"
    /\ Len(messages_history_all) = 1

\* C3: a step of query_gpt_assistant changes no ledger, and the context it
\* dispatches is the fixed system turn followed by the user turn holding the
\* prompt built from the template and the agent's text.
C3_AssistantCallIndependent ==
    [][(Running /\ step = "assistant") =>
          /\ messages_history' = messages_history
          /\ messages_history_all' = messages_history_all
          /\ step' = "finish" =>
                /\ Len(last_messages') = 2
                /\ last_messages'[1] = AssistantSystemTurn
                /\ last_messages'[2] =
                     UserTurn(Replace(prompts_gpt_assistant[stage], AssistantPlaceholder,
                                      response.text))]_vars

\* C3 witness: an assistant request went out while the ledger of the
\* publication held more turns than the dispatched context.
C3_Witness ==
    /\ step = "finish"
    /\ phase = "eval"
    /\ Len(last_messages) = 2
    /\ Len(Ledger) > 8
    /\ events[Len(events)] = Event("dispatch", "assistant")

\* the evaluation of publication i has run to its end
EvalFinished(i) == phase = "done" \/ (phase = "eval" /\ count > i)

\* the position of an event in the order extract 1..n, eval 1..n
PassOrder(e) == IF e.phase = "extract" THEN e.pub ELSE Len(publications) + e.pub

\* C4 as claimed: no request for publication i+1 is dispatched before the
\* last evaluation stage of publication i has finished.
C4_Claimed ==
    \A k \in AllDispatches : events[k].pub > 1 => EvalFinished(events[k].pub - 1)

\* C4 as amended: the extraction of every publication has run to its end
\* before a request of any evaluation is dispatched, and within the
\* extraction pass and within the evaluation pass the requests follow the
\* order of the publications.
C4_TwoPasses ==
    /\ \A k \in AllDispatches :
          events[k].phase = "eval" =>
              /\ Len(messages_history_all) = Len(publications)
              /\ \A p \in 1..Len(publications) : "skgc_topics" \in DOMAIN publications[p]
    /\ \A k, m \in AllDispatches : k < m => PassOrder(events[k]) <= PassOrder(events[m])

\* C4 witness: a run over two publications that evaluated both.
C4_Witness ==
    /\ phase = "done"
    /\ error = "none"
    /\ Len(publications) = 2
    /\ \E k \in AllDispatches : events[k].phase = "eval" /\ events[k].pub = 2

\* C5: with credentials and templates present and remote-call failures the
\* only departures from the expected responses, no uncaught error stops the
\* run.
C5_FailuresDoNotStop ==
    (AllCredentials /\ AllTemplates /\ malformed = 0) => error = "none"

Contains(text, token) == \E i \in 1..Len(text) : text[i] = token

\* C6: a verified ordering response that lacks a section marker raises no
\* error at the end of its stage.
C6_MissingMarkerNoCrash ==
    (/\ phase = "eval" /\ step = "finish" /\ stage \in {1, 3}
     /\ response.src = "assistant"
     /\ \/ ~Contains(response.text, CandidateMarker(stage))
        \/ ~Contains(response.text, HumanExpertResult))
    => error = "none"

\* C7: a pipeline whose template list was loaded empty raises no error.
C7_EmptyTemplatesNoCrash ==
    (\/ step = "agent" /\ prompts_gpt_agent = <<>>
     \/ step = "assistant" /\ prompts_gpt_assistant = <<>>)
    => error = "none"

\* C8 as claimed: a run that ends with the configuration error has
\* dispatched no remote request.
C8_Claimed ==
    (error = "ValueError" /\ ~AllCredentials) => AllDispatches = {}

\* C8 as amended: a call whose key or organization is missing raises the
\* configuration error after its delay and before it dispatches; no request
\* of the agent goes out without agent key and organization, none of the
\* assistant without assistant key and organization, and a run that lacks a
\* credential dispatches at most the one agent request that precedes the
\* first assistant call.
C8_RaisedAtFirstUse ==
    /\ AgentConfigError(env) => AllDispatches = {}
    /\ (~env.assistant \/ ~env.org) => Dispatches("assistant") = {}
    /\ ~AllCredentials => Cardinality(AllDispatches) <= 1
    /\ (error = "ValueError" /\ ~AllCredentials) =>
          /\ events[Len(events)].ev = "delay"
          /\ (events[Len(events)].role = "agent" => Len(messages_history) = 1)

\* C8 witness: only the assistant key is missing; the error was raised by
\* the first assistant call, after the one agent request.
C8_Witness ==
    /\ error = "ValueError"
    /\ env.agent /\ env.org /\ ~env.assistant
    /\ Cardinality(Dispatches("agent")) = 1
    /\ events[Len(events)] = Event("delay", "assistant")

InUnit(x) == x.d > 0 /\ 0 <= x.n /\ x.n <= x.d

MetricsOk(precision, recall, f1) ==
    /\ InUnit(precision)
    /\ InUnit(recall)
    /\ InUnit(f1) \/ f1 = Sentinel
    /\ f1 = Sentinel => (precision.d > 0 /\ recall.d > 0 /\ RatAdd(precision, recall).n = 0)

\* C9: the metrics stored for a publication (its ordered lists are never
\* empty) have precision and recall in [0,1] and f1 in [0,1] or -1, f1 = -1
\* only with precision + recall = 0.
C9_MetricsInRange ==
    \A p \in 1..Len(publications) :
        LET pub == publications[p]
        IN  /\ "skgc_f1" \in DOMAIN pub =>
                 MetricsOk(pub["skgc_precision"], pub["skgc_recall"], pub["skgc_f1"])
            /\ "csoc_f1" \in DOMAIN pub =>
                 MetricsOk(pub["csoc_precision"], pub["csoc_recall"], pub["csoc_f1"])

\* a list parsed from an empty text: no item but the empty string
NoItems(list) == list = << <<>> >> \/ list = <<>>

\* C10: stored metrics have precision -1 where the candidate list has no
\* items and recall -1 where the gold list has no items.
C10_EmptyListSentinel ==
    \A p \in 1..Len(publications) :
        LET pub == publications[p]
        IN  /\ "skgc_f1" \in DOMAIN pub =>
                 /\ NoItems(pub["skgc_topics_ordered"]) => pub["skgc_precision"] = Sentinel
                 /\ NoItems(pub["gold_standard_ordered1"]) => pub["skgc_recall"] = Sentinel
            /\ "csoc_f1" \in DOMAIN pub =>
                 /\ NoItems(pub["csoc_topics_ordered"]) => pub["csoc_precision"] = Sentinel
                 /\ NoItems(pub["gold_standard_ordered2"]) => pub["csoc_recall"] = Sentinel

\* the count stage of a system has acted (SpecMetrics takes one such step)
CountStageActed(sys) ==
    IF sys = "skgc"
    THEN (stage = 3 /\ step = "agent") \/ (stage = 2 /\ error # "none")
    ELSE (phase = "done") \/ (stage = 4 /\ error # "none")

CandidateOf(sys) ==
    IF sys = "skgc" THEN ordered.skgc_topics_ordered ELSE ordered.csoc_topics_ordered

GoldOf(sys) ==
    IF sys = "skgc" THEN ordered.gold_standard_ordered1 ELSE ordered.gold_standard_ordered2

Stored(p, sys, metric) ==
    publications[p][IF sys = "skgc" THEN "skgc_" \o metric ELSE "csoc_" \o metric]

AnyNegative(xs) == \E i \in 1..Len(xs) : xs[i].d > 0 /\ xs[i].n < 0

\* C12: when print_eval_details has computed the corpus means, every metric
\* of every system with a negative record value has the corpus mean -1, and
\* no error was raised.
C12_NegativeForcesSentinel ==
    (phase = "done" /\ report.done) =>
        \A sys \in {"skgc", "csoc"} : \A metric \in {"precision", "recall", "f1"} :
            AnyNegative(MetricList(sys \o "_" \o metric)) =>
                /\ error = "none"
                /\ report.means[metric \o "_mean_" \o sys] = Sentinel

LastTurn(l) == l[Len(l)]

LastEvent == events[Len(events)]

\* C13: extract_topics_one runs stages 1, 2, 3 in this order, each one as
\* agent call, assistant call, append of the verified text; whatever the
\* verified response, the stage after stage s is s + 1, and after stage 3
\* the pipeline has returned the topic list and is not entered again for
\* this publication.
C13_ExtractionOrder ==
    [][(phase = "extract" /\ error = "none") =>
          /\ stage \in 1..3
          /\ step = "begin" => (stage' = 1 /\ step' = "agent" /\ phase' = "extract")
          /\ step = "agent" =>
                /\ stage' = stage /\ phase' = "extract" /\ count' = count
                /\ error' = "none" =>
                      /\ step' = "assistant"
                      /\ \E k \in 1..Len(events') :
                            /\ k > Len(events)
                            /\ events'[k] = Event("dispatch", "agent")
                /\ error' # "none" => step' = step
          /\ step = "assistant" =>
                /\ stage' = stage /\ phase' = "extract" /\ count' = count
                /\ messages_history' = messages_history
                /\ error' = "none" =>
                      /\ step' = "finish"
                      /\ \E k \in 1..Len(events') :
                            /\ k > Len(events)
                            /\ events'[k] = Event("dispatch", "assistant")
          /\ step = "finish" =>
                /\ error' = "none"
                /\ messages_history' =
                      Append(messages_history,
                             [role |-> "assistant", content |-> response.text,
                              src |-> "assistant"])
                /\ stage < 3 =>
                      /\ stage' = stage + 1 /\ step' = "agent"
                      /\ phase' = "extract" /\ count' = count
                /\ stage = 3 =>
                      /\ step' = "begin"
                      /\ "skgc_topics" \in DOMAIN publications'[count]
                      /\ \/ phase' = "extract" /\ count' = count + 1
                         \/ phase' = "eval"]_vars

\* C13 witness: an extraction that had an empty verified response in one of
\* its stages and went through all three.
C13_Witness ==
    /\ Len(messages_history_all) >= 1
    /\ "skgc_topics" \in DOMAIN publications[1]
    /\ Len(messages_history_all[1]) >= 7
    /\ \E i \in {3, 5, 7} : messages_history_all[1][i].content = <<>>

ResponsePlaceholder(st) == IF st = 2 THEN "XXXresponse1XXX" ELSE "XXXresponse2XXX"

\* C14: in extract_topics_one the agent prompt of stage 2 (3) is the
\* template with the verified text of stage 1 (2) - the last assistant turn
\* of the ledger - in the place of its placeholder; the agent's own text goes
\* into the assistant prompt of its stage only, and the topic list is taken
\* from the verified text of stage 3.
C14_PromptsFromVerifiedText ==
    [][(phase = "extract" /\ error = "none") =>
          /\ (step = "agent" /\ stage \in {2, 3} /\ step' = "assistant") =>
                /\ LastTurn(messages_history).role = "assistant"
                /\ LastTurn(messages_history).src = "assistant"
                /\ LastTurn(messages_history') =
                      UserTurn(Replace(FileContent("prompts_gpt_agent.yaml")[stage],
                                       ResponsePlaceholder(stage),
                                       LastTurn(messages_history).content))
          /\ (step = "assistant" /\ step' = "finish") =>
                /\ response.src = "agent"
                /\ last_messages'[2].content =
                      Replace(FileContent("prompts_gpt_assistant.yaml")[stage],
                              AssistantPlaceholder, response.text)
                /\ response'.src = "assistant"
          /\ (step = "finish" /\ stage = 3) =>
                /\ LastTurn(messages_history').src = "assistant"
                /\ publications'[count]["skgc_topics"] =
                      TopicList(LastTurn(messages_history').content)]_vars

\* C14 witness: the stage-3 agent request went out, its prompt holding the
\* verified text of stage 2 and not the agent's text.
C14_Witness ==
    /\ phase = "extract" /\ stage = 3 /\ step = "assistant"
    /\ response = [text |-> <<"r", "a", "w">>, src |-> "agent"]
    /\ LastTurn(messages_history).content = <<"E3", "a", ",", "b">>

\* C15: every remote dispatch is directly preceded by the delay of its own
\* call, so a delay lies between any two dispatches, also after a failure.
C15_DelayBeforeDispatch ==
    \A k \in AllDispatches :
        /\ k > 1
        /\ events[k - 1] = [events[k] EXCEPT !.ev = "delay"]

\* C15 witness: a call failed and the next call waited, then dispatched.
C15_Witness ==
    \E k \in 1..Len(events) :
        /\ events[k].ev = "fail"
        /\ k + 2 <= Len(events)
        /\ events[k + 1].ev = "delay"
        /\ events[k + 2].ev = "dispatch"

\* C16: a call whose remote request fails raises nothing and returns the
\* empty text; the stage goes on to its next step, and the assistant prompt
\* that follows a failed agent call is built from the empty text.
C16_FailureGivesEmptyText ==
    [][(Running /\ step \in {"agent", "assistant"}) =>
          /\ failures' = failures + 1 =>
                /\ error' = "none"
                /\ response'.text = <<>>
                /\ step' = (IF step = "agent" THEN "assistant" ELSE "finish")
                /\ stage' = stage /\ phase' = phase /\ count' = count
                /\ events'[Len(events')] = Event("fail", step)
          /\ (step = "assistant" /\ response.text = <<>> /\ step' = "finish") =>
                last_messages'[2].content = <<prompts_gpt_assistant[stage][1]>>]_vars

\* C16 witness: the agent call of an evaluation stage failed and the
\* assistant call of that stage was made.
C16_Witness ==
    /\ phase = "eval" /\ step = "finish" /\ error = "none"
    /\ \E k \in 1..Len(events) : events[k] = Event("fail", "agent")
    /\ Len(last_messages[2].content) = 1

\* the ledger of the publication in work, after the step
LedgerAfter ==
    IF phase = "extract" THEN messages_history' ELSE messages_history_all'[count]

\* C17: a call of query_gpt_agent that dispatches has appended exactly the
\* user turn holding its prompt, and the context it dispatches is the whole
\* ledger ending with that turn; a call that raises appends nothing; the
\* verified response is appended by the end of the stage.
C17_AgentCallAppendsPrompt ==
    [][Running =>
          /\ (step = "agent" /\ step' = "assistant") =>
                /\ LedgerAfter = Append(Ledger, UserTurn(AgentPrompt(prompts_gpt_agent[stage])))
                /\ last_messages' = LedgerAfter
                /\ SubSeq(last_messages', 1, Len(Ledger)) = Ledger
          /\ (step = "agent" /\ step' = "agent") => LedgerAfter = Ledger
          /\ (step = "finish" /\ error' = "none") =>
                /\ Len(LedgerAfter) = Len(Ledger) + 1
                /\ SubSeq(LedgerAfter, 1, Len(Ledger)) = Ledger
                /\ LastTurn(LedgerAfter).role = "assistant"
                /\ LastTurn(LedgerAfter).content = response.text]_vars

\* C17 witness: an agent request of the evaluation went out with the whole
\* ledger, extraction turns included.
C17_Witness ==
    /\ phase = "eval" /\ step = "assistant" /\ error = "none"
    /\ last_messages = Ledger
    /\ Len(Ledger) > 8
    /\ LastEvent = Event("dispatch", "agent")

\* C18: the extraction of a publication starts on a ledger of its own that
\* holds the system turn alone; a step of the evaluation of publication i
\* changes no ledger but the i-th, and a step of an extraction changes no
\* stored ledger.
C18_LedgersNotShared ==
    [][Running =>
          /\ (phase = "extract" /\ step = "begin") =>
                messages_history' = <<AgentSystemTurn>>
          /\ phase = "extract" =>
                \/ messages_history_all' = messages_history_all
                \/ messages_history_all' = Append(messages_history_all, messages_history')
          /\ phase = "eval" =>
                /\ Len(messages_history_all') = Len(messages_history_all)
                /\ \A j \in 1..Len(messages_history_all) :
                      j # count => messages_history_all'[j] = messages_history_all[j]]_vars

\* C18 witness: the evaluation of the second publication is under way,
\* after the first one's; the two ledgers differ.
C18_Witness ==
    /\ phase = "eval" /\ count = 2 /\ step = "finish"
    /\ Len(messages_history_all[2]) > 7
    /\ Len(messages_history_all[1]) = 15
    /\ messages_history_all[2][2] # messages_history_all[1][2]

\* C19: a verified count text that is no integer literal ("abc", the empty
\* text) raises nothing: the count stage stores the metrics of count 0 and
\* eval_one goes on to what follows the stage.
C19_NonIntegerCountIsZero ==
    [][(Running /\ phase = "eval" /\ step = "finish" /\ stage \in {2, 4}
        /\ response.text \in {<<"a", "b", "c">>, <<>>}) =>
          LET sys == IF stage = 2 THEN "skgc" ELSE "csoc"
          IN  /\ error' = "none"
              /\ publications'[count][sys \o "_precision"] = Zero
              /\ publications'[count][sys \o "_recall"] = Zero
              /\ publications'[count][sys \o "_f1"] = Sentinel
              /\ stage = 2 => (stage' = 3 /\ step' = "agent" /\ phase' = "eval")
              /\ stage = 4 => step' = "begin"]_vars

\* C19 witness: the count text of stage 2 was "abc" and the evaluation ran
\* to its end.
C19_Witness ==
    /\ phase = "done" /\ error = "none"
    /\ messages_history_all[1][11].content = <<"a", "b", "c">>
    /\ publications[1]["skgc_precision"] = Zero
    /\ "csoc_f1" \in DOMAIN publications[1]

\* 2*p*r / (p + r) for p + r # 0
F1Formula(p, r) == Rat(2 * p.n * r.n, p.n * r.d + r.n * p.d)

\* the metrics of a count over two lists, as C20 states them
MetricsAsStated(pub, sys, cnt, cand, gold) ==
    LET p == Rat(cnt, Len(cand))
        r == Rat(cnt, Len(gold))
    IN  /\ pub[sys \o "_precision"] = p
        /\ pub[sys \o "_recall"] = r
        /\ pub[sys \o "_f1"] = (IF RatAdd(p, r).n = 0 THEN Sentinel ELSE F1Formula(p, r))
        /\ (Len(cand) = 2 /\ Len(gold) = 3 /\ cnt = 2) =>
              /\ pub[sys \o "_precision"] = One
              /\ pub[sys \o "_recall"] = Rat(2, 3)
              /\ pub[sys \o "_f1"] = Rat(4, 5)

\* C20: a count stage raises nothing, and the metrics it stores are
\* precision = count / |candidate list|, recall = count / |gold list| and
\* f1 = 2*precision*recall / (precision + recall), -1 for precision +
\* recall = 0 (the ordered lists are never empty).
C20_MetricFormulas ==
    /\ (phase = "eval" /\ step = "finish" /\ stage \in {2, 4}) => error = "none"
    /\ \A p \in 1..Len(publications) :
          LET pub == publications[p]
          IN  /\ "skgc_f1" \in DOMAIN pub =>
                   MetricsAsStated(pub, "skgc",
                       response_to_integer(messages_history_all[p][11].content),
                       pub["skgc_topics_ordered"], pub["gold_standard_ordered1"])
              /\ "csoc_f1" \in DOMAIN pub =>
                   MetricsAsStated(pub, "csoc",
                       response_to_integer(messages_history_all[p][15].content),
                       pub["csoc_topics_ordered"], pub["gold_standard_ordered2"])

RECURSIVE JoinItems(_)
\* the items of a list, a comma between two of them
JoinItems(items) ==
    IF Len(items) = 0 THEN <<>>
    ELSE IF Len(items) = 1 THEN items[1]
    ELSE items[1] \o <<",">> \o JoinItems(Tail(items))

IsSpace(c) == c = " "

Trimmed(item) == item = <<>> \/ (~IsSpace(item[1]) /\ ~IsSpace(item[Len(item)]))

\* C22: the topic list of a publication is the verified text of stage 3
\* (the 7th turn of its ledger) cut at every comma, in the order of the
\* text, one item per piece - equal pieces too -, no item with whitespace
\* at either end.
C22_TopicListSplitAndTrimmed ==
    \A p \in 1..Len(publications) :
        ("skgc_topics" \in DOMAIN publications[p]) =>
            LET text == messages_history_all[p][7].content
                topics == publications[p]["skgc_topics"]
            IN  /\ Len(topics) = Len(SelectSeq(text, LAMBDA c : c = ",")) + 1
                /\ \A i \in 1..Len(topics) : Trimmed(topics[i])
                /\ JoinItems(topics) = SelectSeq(text, LAMBDA c : ~IsSpace(c))

\* C22 witness: a verified text "a,a" gave the two items a and a, and a
\* text "a, b" the items a and b.
C22_Witness ==
    /\ Len(publications) = 2
    /\ "skgc_topics" \in DOMAIN publications[2]
    /\ publications[1]["skgc_topics"] = << <<"a">>, <<"a">> >>
    /\ messages_history_all[2][7].content = <<"a", ",", " ", "b">>
    /\ publications[2]["skgc_topics"] = << <<"a">>, <<"b">> >>

\* C23 as claimed: stage 3 of eval_one parses whatever stage 1 parses, by
\* 'Your result:' and 'Human expert result:', into the same two lists.
C23_Claimed ==
    /\ (phase = "eval" /\ stage = 3 /\ step = "finish" /\ error = "IndexError") =>
           ~ParseOrdered(response.text, YourResult).ok
    /\ \A p \in 1..Len(publications) :
           ("csoc_topics_ordered" \in DOMAIN publications[p]) =>
               LET parsed == ParseOrdered(messages_history_all[p][13].content, YourResult)
               IN  /\ parsed.ok
                   /\ publications[p]["csoc_topics_ordered"] = StripAll(parsed.cand)
                   /\ publications[p]["gold_standard_ordered2"] = StripAll(parsed.gold)

\* C23: stage 3 of eval_one parses by 'CSOC result:' and 'Human expert
\* result:'. It raises IndexError exactly for a response that lacks one of
\* the two, and the lists it stores are those stage 1 parses from the
\* response with 'CSOC result:' replaced by 'Your result:'.
C23_SameParseOtherMarker ==
    /\ (phase = "eval" /\ stage = 3 /\ step = "finish" /\ error = "IndexError") =>
           (~Contains(response.text, CsocResult)
            \/ ~Contains(response.text, HumanExpertResult))
    /\ (phase = "eval" /\ stage = 1 /\ step = "finish" /\ error = "IndexError") =>
           (~Contains(response.text, YourResult)
            \/ ~Contains(response.text, HumanExpertResult))
    /\ \A p \in 1..Len(publications) :
           ("csoc_topics_ordered" \in DOMAIN publications[p]) =>
               LET text == messages_history_all[p][13].content
                   parsed == ParseOrdered(Replace(text, CsocResult, <<YourResult>>),
                                          YourResult)
               IN  /\ Contains(text, CsocResult)
                   /\ parsed.ok
                   /\ publications[p]["csoc_topics_ordered"] = StripAll(parsed.cand)
                   /\ publications[p]["gold_standard_ordered2"] = StripAll(parsed.gold)

\* C23 witness: stage 3 stored the two lists of a response that carries
\* 'CSOC result:', after stage 1 stored those of one with 'Your result:'.
C23_Witness ==
    /\ "csoc_topics_ordered" \in DOMAIN publications[1]
    /\ Contains(messages_history_all[1][9].content, YourResult)
    /\ ~Contains(messages_history_all[1][13].content, YourResult)
    /\ publications[1]["csoc_topics_ordered"] = << <<"a">>, <<"c">> >>
    /\ publications[1]["gold_standard_ordered2"] = << <<"a">>, <<"c">>, <<"b">> >>

SkgcKeys ==
    {"skgc_topics_ordered", "gold_standard_ordered1",
     "skgc_precision", "skgc_recall", "skgc_f1"}

CsocKeys ==
    {"csoc_topics_ordered", "gold_standard_ordered2",
     "csoc_precision", "csoc_recall", "csoc_f1"}

\* the step leaves the keys of `keys` of the p-th record as they are: it
\* changes none, adds none and removes none
KeysUntouched(p, keys) ==
    \A f \in keys :
        /\ (f \in DOMAIN publications[p]) <=> (f \in DOMAIN publications'[p])
        /\ (f \in DOMAIN publications[p]) => publications'[p][f] = publications[p][f]

\* C24: the end of stage 3 or 4 of eval_one leaves the SKGC fields of the
\* record as they are and the end of stage 1 or 2 its CSOC fields; the two
\* lists of stage 1 (3) are parsed from the verified response of stage 1
\* (3), and precision and recall of stage 2 (4) come from the count in the
\* response of stage 2 (4) and the lists of stage 1 (3).
C24_GoldOrderedPerCandidate ==
    [][(Running /\ phase = "eval" /\ step = "finish") =>
          /\ stage \in {3, 4} => KeysUntouched(count, SkgcKeys)
          /\ stage \in {1, 2} => KeysUntouched(count, CsocKeys)
          /\ (stage \in {1, 3} /\ error' = "none") =>
                LET cand == Split(Strip(Split(Split(response.text,
                                IF stage = 1 THEN YourResult ELSE CsocResult)[2],
                                HumanExpertResult)[1]), ",")
                    gold == Split(Strip(Split(response.text, HumanExpertResult)[2]), ",")
                    sys == IF stage = 1 THEN "skgc" ELSE "csoc"
                    nr == IF stage = 1 THEN "1" ELSE "2"
                IN  /\ publications'[count][sys \o "_topics_ordered"] = StripAll(cand)
                    /\ publications'[count]["gold_standard_ordered" \o nr] = StripAll(gold)
          /\ (stage \in {2, 4} /\ error' = "none") =>
                LET sys == IF stage = 2 THEN "skgc" ELSE "csoc"
                    nr == IF stage = 2 THEN "1" ELSE "2"
                    cnt == response_to_integer(response.text)
                IN  /\ publications'[count][sys \o "_precision"] =
                          Ratio(cnt, publications[count][sys \o "_topics_ordered"])
                    /\ publications'[count][sys \o "_recall"] =
                          Ratio(cnt, publications[count]["gold_standard_ordered" \o nr])]_vars

\* C24 witness: a record evaluated to the end whose two gold orderings
\* differ.
C24_Witness ==
    /\ "csoc_f1" \in DOMAIN publications[1]
    /\ publications[1]["gold_standard_ordered1"] = << <<"a">>, <<"b">>, <<"c">> >>
    /\ publications[1]["gold_standard_ordered2"] = << <<"a">>, <<"c">>, <<"b">> >>
    /\ publications[1]["skgc_recall"] = Rat(2, 3)

\* C25: no step removes a record or a field of a record or changes an
\* input field or skgc_topics of a record, and when eval_one has come to its
\* end for a record, the record carries its five input fields as read in,
\* skgc_topics, the four ordered lists and the six metrics.
C25_RecordComplete ==
    [][/\ Len(publications') = Len(publications)
       /\ \A p \in 1..Len(publications) :
             /\ DOMAIN publications[p] \subseteq DOMAIN publications'[p]
             /\ \A f \in (InputFields \cup {"skgc_topics"}) \cap DOMAIN publications[p] :
                   publications'[p][f] = publications[p][f]
       /\ (Running /\ phase = "eval" /\ step = "finish" /\ stage = 4 /\ error' = "none") =>
             /\ DOMAIN publications'[count] =
                   InputFields \cup {"skgc_topics"} \cup SkgcKeys \cup CsocKeys
             /\ \A f \in InputFields :
                   publications'[count][f] = InputPublication(count)[f]]_vars

\* C25 witness: the evaluation of the second of two records has come to its
\* end.
C25_Witness ==
    /\ phase = "done" /\ error = "none" /\ Len(publications) = 2
    /\ DOMAIN publications[2] =
          InputFields \cup {"skgc_topics"} \cup SkgcKeys \cup CsocKeys
    /\ publications[2]["title"] = <<"t", "2">>

\* C28: when the user answered B, print_eval_details has opened no file
\* for writing.
C28_NoFileUnlessRequested ==
    (report.done /\ report.choice = "B") => report.opened = {}

\* the template files a pipeline loads
AgentFile == IF phase = "extract" THEN "prompts_gpt_agent.yaml"
             ELSE "prompts_gpt_agent_eval.yaml"

AssistantFile == IF phase = "extract" THEN "prompts_gpt_assistant.yaml"
                 ELSE "prompts_gpt_assistant_eval.yaml"

\* a template file that is missing, or whose content is no list of texts:
\* not parsable, empty, or a list with an item that is no text
Rejected == {"missing", "malformed", "empty", "nontext"}

EverySecondFrom(list, start) ==
    [k \in 1..(IF Len(list) < start THEN 0 ELSE (Len(list) - start) \div 2 + 1) |->
        list[start + 2 * (k - 1)]]

\* C27: after select_publications the list in work is, for the answer A,
\* the list read in, for B its 3rd, 5th, 7th, ... record and for C its 4th,
\* 6th, 8th, ... record.
C27_EverySecondPublication ==
    (selection \in {"A", "B", "C"}) =>
        LET all == read_publication_from_file(data).publications
        IN  /\ selection = "A" => publications = all
            /\ selection = "B" => publications = EverySecondFrom(all, 3)
            /\ selection = "C" => publications = EverySecondFrom(all, 4)

\* the record the claim gives an entry: the values of its keys, the empty
\* text or list for a key it lacks
RecordOfEntry(value) ==
    [title |-> IF "title" \in DOMAIN value THEN Strip(value["title"]) ELSE <<>>,
     keywords |-> IF "keywords" \in DOMAIN value THEN value["keywords"] ELSE <<>>,
     abstract |-> IF "abstract" \in DOMAIN value THEN Strip(value["abstract"]) ELSE <<>>,
     csoc_result |-> IF "cso_output" \in DOMAIN value /\ "final" \in DOMAIN value["cso_output"]
                     THEN value["cso_output"]["final"] ELSE <<>>,
     gold_standard |-> IF "gold_standard" \in DOMAIN value
                          /\ "majority_vote" \in DOMAIN value["gold_standard"]
                       THEN value["gold_standard"]["majority_vote"] ELSE <<>>]

\* C29: when read_publication_from_file has read a JSON object, nothing
\* was raised and the list holds one record per entry, in order, each with
\* the five fields: the entry's own value, or empty where the entry lacks
\* the key.
C29_RecordPerEntry ==
    (data.kind = "object" /\ selection = "none") =>
        /\ error = "none"
        /\ Len(publications) = Len(data.items)
        /\ \A i \in 1..Len(publications) :
              publications[i] = RecordOfEntry(data.items[i])

\* C30: when the file written by skgc_topics_and_eval_to_json has been read
\* by read_publication_from_file, nothing was raised and every record read
\* has the metrics and the ordered lists of the record written.
C30_RoundTrip ==
    (data.kind = "array" /\ data.items # <<>> /\ phase # "written") =>
        /\ error = "none"
        /\ Len(publications) = Len(data.items)
        /\ \A i \in 1..Len(publications) :
              \A f \in SkgcKeys \cup CsocKeys :
                  /\ f \in DOMAIN publications[i]
                  /\ publications[i][f] = data.items[i][f]

ListKeys ==
    {"skgc_topics", "skgc_topics_ordered", "gold_standard_ordered1",
     "csoc_topics_ordered", "gold_standard_ordered2"}

\* C31: the topic list and the four ordered lists of a record have at
\* least one item, and at the end of a count stage of eval_one the two
\* lists the ratios are taken over are not empty, so neither ratio is set
\* to -1 for an empty list.
C31_ListsNeverEmpty ==
    /\ \A p \in 1..Len(publications) :
          \A f \in ListKeys \cap DOMAIN publications[p] :
              Len(publications[p][f]) >= 1
    /\ (phase = "eval" /\ stage = 2 /\ step = "finish") =>
          /\ Len(ordered.skgc_topics_ordered) >= 1
          /\ Len(ordered.gold_standard_ordered1) >= 1
    /\ (phase = "eval" /\ stage = 4 /\ step = "finish") =>
          /\ Len(ordered.csoc_topics_ordered) >= 1
          /\ Len(ordered.gold_standard_ordered2) >= 1

\* C31 witness: an empty verified text of stage 3 gave the topic list of
\* one empty item, and the ratios of the record were taken.
C31_Witness ==
    /\ "skgc_recall" \in DOMAIN publications[1]
    /\ messages_history_all[1][7].content = <<>>
    /\ publications[1]["skgc_topics"] = << <<>> >>
    /\ Len(publications[1]["skgc_topics_ordered"]) >= 1

\* the extraction and the evaluation of the p-th publication have completed
Completed(p) == phase \in {"done", "written"} \/ (phase = "eval" /\ count > p)

\* system, user, assistant, user, assistant, ...
LedgerShape(l) ==
    l # <<>> =>
        /\ l[1] = AgentSystemTurn
        /\ \A i \in 2..Len(l) :
              l[i].role = (IF i % 2 = 0 THEN "user" ELSE "assistant")

\* turns of a ledger when k stages are completed and the stage in work is at
\* the given step
TurnsAt(k, st) == 1 + 2 * k + (IF st = "agent" THEN 0 ELSE 1)

\* C32: every ledger starts with the one system turn and goes on user,
\* assistant, user, assistant, ...; with k stages completed it holds 1 + 2k
\* turns (one more when the agent call of the next stage has appended its
\* prompt), 7 after the extraction and 15 - 1 system, 7 user, 7 assistant -
\* after the evaluation.
C32_LedgerShape ==
    /\ \A l \in AllLedgers : LedgerShape(l)
    /\ (phase = "extract" /\ step # "begin") =>
          Len(messages_history) = TurnsAt(stage - 1, step)
    /\ \A p \in 1..Len(messages_history_all) :
          LET l == messages_history_all[p]
          IN  /\ Completed(p) =>
                    /\ Len(l) = 15
                    /\ CountRole(l, "system") = 1
                    /\ CountRole(l, "user") = 7
                    /\ CountRole(l, "assistant") = 7
              /\ (phase = "eval" /\ count = p /\ step # "begin") =>
                    Len(l) = TurnsAt(3 + stage - 1, step)
              /\ (phase = "extract" \/ (phase = "eval" /\ (count < p \/ (count = p /\ step = "begin")))) =>
                    Len(l) = 7

\* C32 witness: two publications are through, one of them with a failed
\* remote call.
C32_Witness ==
    /\ phase = "done" /\ error = "none" /\ Len(publications) = 2
    /\ failures = 1
    /\ Len(messages_history_all[1]) = 15 /\ Len(messages_history_all[2]) = 15

IsPrefix(old, new) == Len(old) <= Len(new) /\ SubSeq(new, 1, Len(old)) = old

\* C33: a step changes no turn that is in a ledger: every stored ledger is
\* a prefix of what it is after the step, and so is the ledger of the
\* extraction under way; the ledger stored at the end of an extraction is
\* that ledger. So the context an agent call of the evaluation dispatches
\* starts with the seven turns of the publication's extraction.
C33_LedgerAppendOnly ==
    [][/\ Len(messages_history_all) <= Len(messages_history_all')
       /\ \A p \in 1..Len(messages_history_all) :
             IsPrefix(messages_history_all[p], messages_history_all'[p])
       /\ (Running /\ phase = "extract" /\ step # "begin") =>
             IsPrefix(messages_history, messages_history')
       /\ (Running /\ phase = "extract" /\ step = "finish" /\ stage = 3) =>
             messages_history_all'[count] = messages_history'
       /\ (Running /\ phase = "eval" /\ step = "agent" /\ step' = "assistant") =>
             /\ Len(last_messages') >= 8
             /\ SubSeq(last_messages', 1, 7) = SubSeq(messages_history_all[count], 1, 7)
             /\ Contains(last_messages'[2].content, ToString(count))]_vars

\* C33 witness: an agent request of the evaluation of the second
\* publication went out; its context starts with the turns of that
\* publication's extraction, the empty text of a failed call among them.
C33_Witness ==
    /\ phase = "eval" /\ count = 2 /\ step = "assistant" /\ error = "none"
    /\ Len(last_messages) >= 8
    /\ last_messages[2].content = <<"E1", "t", "2", "k", "x">>
    /\ \E i \in {3, 5, 7} : last_messages[i].content = <<>>

\* C34: a call of query_gpt_agent with the agent key or the organization
\* missing raises the configuration error after its delay, with the ledger
\* as it was and nothing dispatched; a call whose remote request fails
\* leaves its user turn at the end of the ledger, and the assistant call that
\* follows does not take it away.
C34_AgentCallErrors ==
    [][(Running /\ Len(prompts_gpt_agent) >= stage) =>
          /\ (step = "agent" /\ (~env.agent \/ ~env.org)) =>
                /\ error' = "ValueError"
                /\ messages_history' = messages_history
                /\ messages_history_all' = messages_history_all
                /\ last_messages' = last_messages
                /\ events' = Append(events, Event("delay", "agent"))
          /\ (step = "agent" /\ failures' = failures + 1) =>
                /\ error' = "none"
                /\ Len(LedgerAfter) = Len(Ledger) + 1
                /\ LastTurn(LedgerAfter).role = "user"
                /\ LastTurn(LedgerAfter).content = last_messages'[Len(last_messages')].content
          /\ (step = "assistant" /\ response.text = <<>>) =>
                /\ LedgerAfter = Ledger
                /\ LastTurn(LedgerAfter).role = "user"]_vars

\* C34 witness: the remote request of an agent call failed, the assistant
\* call of the stage was made, and the prompt of the agent call is the last
\* turn of the ledger.
C34_Witness ==
    /\ Running /\ step = "finish"
    /\ \E k \in 1..Len(events) : events[k] = Event("fail", "agent")
    /\ LastTurn(Ledger).role = "user"
    /\ Len(Ledger) = TurnsAt(IF phase = "extract" THEN stage - 1 ELSE stage + 2, step)

RunEnded == phase \in {"done", "written"} \/ error # "none"

MarkersPresent ==
    (phase = "eval" /\ step = "finish" /\ stage \in {1, 3}) =>
        /\ Contains(response.text, CandidateMarker(stage))
        /\ Contains(response.text, HumanExpertResult)

DispatchesBefore(k) == {j \in AllDispatches : j < k}

\* C35: a run in which every remote call returned and every ordering
\* response held its section markers ends after 14 dispatches per
\* publication, seven to each model, an agent call first and the two models
\* taking turns.
C35_FourteenDispatches ==
    (RunEnded /\ failures = 0 /\ AllCredentials /\ MarkersPresent) =>
        /\ Cardinality(Dispatches("agent")) = 7 * Len(publications)
        /\ Cardinality(Dispatches("assistant")) = 7 * Len(publications)
        /\ \A k \in AllDispatches :
              events[k].role = (IF Cardinality(DispatchesBefore(k)) % 2 = 0
                                THEN "agent" ELSE "assistant")

\* C36: after print_eval_details has ended, with the answer A, the standard
\* output is the console, however the function ended.
C36_StdoutRestored ==
    (report.done /\ report.choice = "A") => report.stdout = "console"

====
